---- MODULE Spec2Model ----
(***************************************************************************)
(* Transaction risk scoring service (src/main.py): the /score pipeline,    *)
(* the in-memory audit log, the Prometheus metrics and the read endpoints. *)
(*                                                                         *)
(* Units.  Probabilities are integers in units of 1e-5 (0.3 is 30000), so  *)
(* that rounding to 4 decimals (a multiple of 10 units) is not the         *)
(* identity.  sender_country_risk_score is in hundredths (1.0 is 100).     *)
(* Amounts are whole dollars.                                              *)
(*                                                                         *)
(* Scheduling.  Every endpoint is an `async def` without an await in its   *)
(* body, so a handler body runs to completion on the event loop.  The      *)
(* middleware awaits call_next, so a request has three steps: middleware   *)
(* entry, body validation + handler, middleware exit.                      *)
(*                                                                         *)
(* Clock values (timestamp, processing_time_ms, uptime_seconds) are left   *)
(* out of the records: they are readings of the wall clock.                *)
(***************************************************************************)
EXTENDS Integers, Sequences, FiniteSets, TLC

\* ------------------------------------------------------------------ bounds
\* Number of /score requests a behaviour submits.
NumRequests == 2
\* Largest limit passed to GET /audit-logs.
MaxLimit == 1

Requests == 1..NumRequests

\* --------------------------------------------------------------- constants
MODEL_VERSION == "v1.0.0"
ENVIRONMENT == "production"

\* Range of predict_proba(...)[0][1]: 1.0 in units of 1e-5.
ProbMax == 100000
\* The thresholds 0.3, 0.6, 0.8 of score_transaction.
LowBelow == 30000
MediumBelow == 60000
HighBelow == 80000
\* Rounding step of round(risk_score, 4): 1e-4 in units of 1e-5.
RoundStep == 10

\* Bounds of TransactionFeatures.
MaxAmount == 1000000
MaxTransactions24h == 1000
MaxCountryRisk == 100
MaxHour == 23

\* ------------------------------------------------------ TransactionFeatures
FieldNames ==
    {"transaction_amount_usd", "sender_age_days", "transactions_last_24h",
     "avg_transaction_amount", "sender_country_risk_score",
     "is_new_recipient", "hour_of_day"}

\* TransactionFeatures without the upper bound of hour_of_day (le=23).
TransactionFeatures_no_hour_le(raw) ==
    /\ FieldNames \subseteq DOMAIN raw
    /\ raw.transaction_amount_usd >= 0
    /\ raw.sender_age_days >= 0
    /\ raw.transactions_last_24h >= 0
    /\ raw.transactions_last_24h <= MaxTransactions24h
    /\ raw.avg_transaction_amount >= 0
    /\ raw.sender_country_risk_score >= 0
    /\ raw.sender_country_risk_score <= MaxCountryRisk
    /\ raw.is_new_recipient \in BOOLEAN
    /\ raw.hour_of_day >= 0
    /\ ~(raw.transaction_amount_usd > MaxAmount)

\* TransactionFeatures refusing the maximum amount itself (>= for >).
TransactionFeatures_amount_exclusive(raw) ==
    /\ FieldNames \subseteq DOMAIN raw
    /\ raw.transaction_amount_usd >= 0
    /\ raw.sender_age_days >= 0
    /\ raw.transactions_last_24h >= 0
    /\ raw.transactions_last_24h <= MaxTransactions24h
    /\ raw.avg_transaction_amount >= 0
    /\ raw.sender_country_risk_score >= 0
    /\ raw.sender_country_risk_score <= MaxCountryRisk
    /\ raw.is_new_recipient \in BOOLEAN
    /\ raw.hour_of_day >= 0
    /\ raw.hour_of_day <= MaxHour
    /\ ~(raw.transaction_amount_usd >= MaxAmount)

\* Field(..., ge=0[, le=...]) of every field, required (a raw body is a
\* record; a missing field is a field absent from its domain), and the
\* validator validate_amount.
TransactionFeatures(raw) ==
    /\ FieldNames \subseteq DOMAIN raw
    /\ raw.transaction_amount_usd >= 0
    /\ raw.sender_age_days >= 0
    /\ raw.transactions_last_24h >= 0
    /\ raw.transactions_last_24h <= MaxTransactions24h
    /\ raw.avg_transaction_amount >= 0
    /\ raw.sender_country_risk_score >= 0
    /\ raw.sender_country_risk_score <= MaxCountryRisk
    /\ raw.is_new_recipient \in BOOLEAN
    /\ raw.hour_of_day >= 0
    /\ raw.hour_of_day <= MaxHour
    /\ ~(raw.transaction_amount_usd > MaxAmount)

\* np.array([...]) of score_transaction: the fixed field order, the flag
\* as 0/1.
feature_vector(f) ==
    <<f.transaction_amount_usd, f.sender_age_days, f.transactions_last_24h,
      f.avg_transaction_amount, f.sender_country_risk_score,
      IF f.is_new_recipient THEN 1 ELSE 0, f.hour_of_day>>

\* The fields declared float.  A float zero has a sign: JSON -0.0 parses to
\* the negative zero, which compares equal to 0.0 (so it passes ge=0) and
\* which str() prints as '-0.0'.  A payload names in negative_zeros the
\* float fields whose zero is the negative one.
FloatFields ==
    {"transaction_amount_usd", "avg_transaction_amount",
     "sender_country_risk_score"}

\* str(v) of a float field: the sign of a zero, then the number.
float_str(f, n) ==
    <<IF f[n] = 0 /\ n \in f.negative_zeros THEN "-" ELSE "", f[n]>>

\* hashlib.sha256(str(features_dict).encode()).hexdigest(): a digest that
\* reads the dict's text, that is the seven values in declaration order as
\* str() prints them (the flag as True/False), and nothing else.  The
\* digest is modelled as the tagged text it is computed from
\* (collision-free).
features_hash(f) ==
    <<"sha256", float_str(f, "transaction_amount_usd"), f.sender_age_days,
      f.transactions_last_24h, float_str(f, "avg_transaction_amount"),
      float_str(f, "sender_country_risk_score"), f.is_new_recipient,
      f.hour_of_day>>

\* --------------------------------------------------------------- risk policy
\* risk_level with the comparisons inclusive (<= for <).
risk_level_inclusive(p) ==
    IF p <= LowBelow THEN "LOW"
    ELSE IF p <= MediumBelow THEN "MEDIUM"
    ELSE IF p <= HighBelow THEN "HIGH"
    ELSE "CRITICAL"

\* The if/elif chain of score_transaction on the risk score.
risk_level(p) ==
    IF p < LowBelow THEN "LOW"
    ELSE IF p < MediumBelow THEN "MEDIUM"
    ELSE IF p < HighBelow THEN "HIGH"
    ELSE "CRITICAL"

recommendation(p) ==
    IF p < LowBelow THEN "APPROVE"
    ELSE IF p < MediumBelow THEN "REVIEW"
    ELSE IF p < HighBelow THEN "REVIEW"
    ELSE "REJECT"

\* round(risk_score, 4): to the nearest multiple of 1e-4; an exact tie goes
\* to the even multiple.
Round4(p) ==
    LET q == p \div RoundStep
        r == p % RoundStep
    IN  IF 2 * r < RoundStep THEN q * RoundStep
        ELSE IF 2 * r > RoundStep THEN (q + 1) * RoundStep
        ELSE IF q % 2 = 0 THEN q * RoundStep
        ELSE (q + 1) * RoundStep

\* ------------------------------------------------------------------ audit log
\* The dict built by create_audit_log.
AuditEntry(transaction_id, customer_id, score, level, rec, correlation_id) ==
    [transaction_id |-> transaction_id,
     customer_id |-> customer_id,
     risk_score |-> score,
     risk_level |-> level,
     recommendation |-> rec,
     model_version |-> MODEL_VERSION,
     environment |-> ENVIRONMENT,
     correlation_id |-> correlation_id]

\* create_audit_log storing the entry over the latest one (a lost append).
create_audit_log_overwrite(logs, entry) ==
    IF logs = <<>> THEN <<entry>> ELSE [logs EXCEPT ![Len(logs)] = entry]

\* create_audit_log inserting at the front (audit_logs.insert(0, entry)).
create_audit_log_front(logs, entry) == <<entry>> \o logs

\* audit_logs.append(audit_entry).
create_audit_log(logs, entry) == Append(logs, entry)

\* Python's s[start:] for a list s and an integer start: a negative start
\* counts from the end, and both ends clamp.
PySliceFrom(s, start) ==
    LET n == Len(s)
        lo == IF start < 0
              THEN (IF n + start < 0 THEN 0 ELSE n + start)
              ELSE (IF start > n THEN n ELSE start)
    IN  SubSeq(s, lo + 1, n)

\* The body of get_audit_logs: {"total": len(audit_logs),
\* "logs": audit_logs[-limit:]}.
get_audit_logs(logs, limit) ==
    [total |-> Len(logs), logs |-> PySliceFrom(logs, 0 - limit)]

\* ------------------------------------------------------------------ inputs
\* Raw feature payloads a caller sends: the spec's end-to-end scenario
\* (valid), one with hour_of_day out of range, one with amount above the
\* ceiling, one with hour_of_day missing.
ValidFeatures ==
    [transaction_amount_usd |-> 50000, sender_age_days |-> 2,
     transactions_last_24h |-> 15, avg_transaction_amount |-> 200,
     sender_country_risk_score |-> 90, is_new_recipient |-> TRUE,
     hour_of_day |-> 3, negative_zeros |-> {}]

\* The same scenario for a sender without history: the average is 0.0, or
\* the negative zero -0.0.
NoHistoryFeatures == [ValidFeatures EXCEPT !.avg_transaction_amount = 0]
NegativeZeroFeatures ==
    [NoHistoryFeatures EXCEPT !.negative_zeros = {"avg_transaction_amount"}]

InvalidFeatureCases ==
    {[ValidFeatures EXCEPT !.hour_of_day = MaxHour + 1],
     [ValidFeatures EXCEPT !.transaction_amount_usd = MaxAmount + 1],
     [transaction_amount_usd |-> 50000, sender_age_days |-> 2,
      transactions_last_24h |-> 15, avg_transaction_amount |-> 200,
      sender_country_risk_score |-> 90, is_new_recipient |-> TRUE,
      negative_zeros |-> {}]}

NoCustomer == "None"

\* Correlation ids: a caller's header value, or a uuid4 token, fresh at
\* every call of uuid.uuid4().
NoHeader == <<>>
CallerCorrelationId == <<"caller", 1>>
uuid4(r, site) == <<site, r>>

ScoreRequest(tid, cust, f, h) ==
    [transaction_id |-> tid, customer_id |-> cust, features |-> f,
     x_correlation_id |-> h]

\* What request r may send: valid features under its own transaction id,
\* without customer id or X-Correlation-ID header; valid features equal to
\* those field for field, the zero average being the negative zero, under
\* transaction id 0, which every caller may use (duplicates), with both;
\* or one of the invalid payloads.
ScoreRequests(r) ==
    {ScoreRequest(r, NoCustomer, NoHistoryFeatures, NoHeader),
     ScoreRequest(0, "cust-1", NegativeZeroFeatures, CallerCorrelationId)}
        \cup {ScoreRequest(r, NoCustomer, f, NoHeader) : f \in InvalidFeatureCases}

\* Probabilities the predictor returns in the request pipeline: 0.29999
\* (LOW, just under a threshold, not a multiple of 1e-4), 0.7 (HIGH) and
\* 0.85 (CRITICAL, the spec's scenario).
ProbValues == {LowBelow - 1, 70000, 85000}

\* Where an exception leaves the try block of score_transaction, and its
\* class as far as the except clauses tell it apart.
RaisePoints == {"assemble", "predict", "audit_entry", "after_append"}
ExceptionTypes == {"ValueError", "Exception"}

Levels == {"LOW", "MEDIUM", "HIGH", "CRITICAL"}
CounterLabels ==
    {<<l, "success">> : l \in Levels}
        \cup {<<"ERROR", "error">>, <<"ERROR", "validation_error">>}

\* ------------------------------------------------------------------- state
VARIABLES
    startup,                 \* lifespan: "pending", "started", "failed"
    model,                   \* the global model: "None" or "loaded"
    audit_logs,              \* the global audit_logs list
    audit_src,               \* history: the request behind each entry
    predictor_calls,         \* history: calls of model.predict_proba
    PREDICTION_COUNTER,      \* label pair -> value
    PREDICTION_LATENCY,      \* number of observations
    HIGH_RISK_TRANSACTIONS,  \* gauge value
    pc,                      \* per request: new, dispatch, respond, done
    req,                     \* per request: what the caller sent
    mw_correlation_id,       \* per request: correlation_id of the middleware
    resp,                    \* per request: the response
    last_read,               \* the response of the latest GET endpoint
    probability,             \* input of the risk policy taken alone
    classified,              \* its output
    raw_features,            \* input of the validation taken alone
    validated                \* its outcome

vars ==
    <<startup, model, audit_logs, audit_src, predictor_calls, PREDICTION_COUNTER,
      PREDICTION_LATENCY, HIGH_RISK_TRANSACTIONS, pc, req,
      mw_correlation_id, resp, last_read, probability, classified,
      raw_features, validated>>

metric_vars == <<PREDICTION_COUNTER, PREDICTION_LATENCY, HIGH_RISK_TRANSACTIONS>>
policy_vars == <<probability, classified>>
validation_vars == <<raw_features, validated>>

NoRequest == ScoreRequest(0, NoCustomer, [none |-> TRUE], NoHeader)
NoBody == [none |-> TRUE]
NoResponse ==
    [status |-> 0, detail |-> "", body |-> NoBody, x_correlation_id |-> NoHeader]
NoRead == [op |-> "none", status |-> 0, body |-> NoBody]
NotClassified == [risk_level |-> "", recommendation |-> ""]

\* The module's globals after import: model = None, audit_logs = [],
\* metrics at zero.
ServiceInit ==
    /\ startup = "pending"
    /\ model = "None"
    /\ audit_logs = <<>>
    /\ audit_src = <<>>
    /\ predictor_calls = 0
    /\ PREDICTION_COUNTER = [l \in CounterLabels |-> 0]
    /\ PREDICTION_LATENCY = 0
    /\ HIGH_RISK_TRANSACTIONS = 0
    /\ pc = [r \in Requests |-> "new"]
    /\ req = [r \in Requests |-> NoRequest]
    /\ mw_correlation_id = [r \in Requests |-> NoHeader]
    /\ resp = [r \in Requests |-> NoResponse]
    /\ last_read = NoRead

NotValidated == "pending"

Init ==
    /\ ServiceInit
    /\ probability = 0
    /\ classified = NotClassified
    /\ raw_features = ValidFeatures
    /\ validated = NotValidated

\* ----------------------------------------------------------------- startup
\* load_model: model is assigned only when pickle.load returned.
load_model(m) == "loaded"

\* lifespan, load_model succeeding.
LifespanStartup ==
    /\ startup = "pending"
    /\ last_read = NoRead
    /\ model' = load_model(model)
    /\ startup' = "started"
    /\ UNCHANGED <<audit_logs, audit_src, predictor_calls, metric_vars, pc, req,
                   mw_correlation_id, resp, last_read, policy_vars,
                   validation_vars>>

\* lifespan, load_model raising (file not found, unpickling error): the
\* exception leaves the startup hook and the server stops.
LifespanStartupFails ==
    /\ startup = "pending"
    /\ last_read = NoRead
    /\ startup' = "failed"
    /\ UNCHANGED <<model, audit_logs, audit_src, predictor_calls, metric_vars, pc, req,
                   mw_correlation_id, resp, last_read, policy_vars,
                   validation_vars>>

\* The app answers requests unless startup failed.  It answers them with
\* startup still pending when it is called without its lifespan (an ASGI
\* client that does not run the startup hook): model is None then.
\* A GET handler's response goes to its caller before another handler
\* runs: last_read holds it for the one state after the handler.
Serving == startup # "failed" /\ last_read = NoRead

\* ------------------------------------------------------------------- /score
\* add_correlation_id, up to `await call_next(request)`:
\* request.headers.get("X-Correlation-ID", str(uuid.uuid4())).
middleware_correlation_id(r, header) ==
    IF header # NoHeader THEN header ELSE uuid4(r, "middleware")

\* score_transaction: x_correlation_id or str(uuid.uuid4()).
handler_correlation_id(r, header) ==
    IF header # NoHeader THEN header ELSE uuid4(r, "handler")

\* A caller sends POST /score and the middleware is entered.
Arrive(r) ==
    /\ Serving
    /\ pc[r] = "new"
    /\ \E request \in ScoreRequests(r) :
          /\ req' = [req EXCEPT ![r] = request]
          /\ mw_correlation_id' =
                [mw_correlation_id EXCEPT
                    ![r] = middleware_correlation_id(r, request.x_correlation_id)]
    /\ pc' = [pc EXCEPT ![r] = "dispatch"]
    /\ UNCHANGED <<startup, model, audit_logs, audit_src, predictor_calls, metric_vars, resp,
                   last_read, policy_vars,
                   validation_vars>>

\* The body is validated against RiskScoreRequest before score_transaction
\* is called (its parameter `request: RiskScoreRequest`).
BodyValid(r) == TransactionFeatures(req[r].features)

\* An invalid body never reaches the handler: the framework answers 422.
RequestValidationError(r) ==
    /\ Serving
    /\ pc[r] = "dispatch"
    /\ ~BodyValid(r)
    /\ resp' = [resp EXCEPT ![r] =
                   [NoResponse EXCEPT !.status = 422,
                                      !.detail = "Unprocessable Entity"]]
    /\ pc' = [pc EXCEPT ![r] = "respond"]
    /\ UNCHANGED <<startup, model, audit_logs, audit_src, predictor_calls, metric_vars, req,
                   mw_correlation_id, last_read, policy_vars,
                   validation_vars>>

CounterInc(counter, level, status) ==
    [counter EXCEPT ![<<level, status>>] = @ + 1]

\* score_transaction with model None: the counter and HTTP 503.
ScoreModelNotLoaded(r) ==
    /\ Serving
    /\ pc[r] = "dispatch"
    /\ BodyValid(r)
    /\ model = "None"
    /\ PREDICTION_COUNTER' = CounterInc(PREDICTION_COUNTER, "ERROR", "error")
    /\ resp' = [resp EXCEPT ![r] =
                   [NoResponse EXCEPT !.status = 503,
                                      !.detail = "Model not loaded"]]
    /\ pc' = [pc EXCEPT ![r] = "respond"]
    /\ UNCHANGED <<startup, model, audit_logs, audit_src, predictor_calls, PREDICTION_LATENCY,
                   HIGH_RISK_TRANSACTIONS, req, mw_correlation_id, last_read,
                   policy_vars,
                   validation_vars>>

\* The dict score_transaction returns.
RiskScoreResponse(r, p) ==
    [transaction_id |-> req[r].transaction_id,
     risk_score |-> Round4(p),
     risk_level |-> risk_level(p),
     recommendation |-> recommendation(p),
     model_version |-> MODEL_VERSION,
     correlation_id |-> handler_correlation_id(r, req[r].x_correlation_id),
     features_hash |-> features_hash(req[r].features)]

\* The entry score_transaction hands to create_audit_log.
ScoreAuditEntry(r, p) ==
    AuditEntry(req[r].transaction_id, req[r].customer_id, p, risk_level(p),
               recommendation(p),
               handler_correlation_id(r, req[r].x_correlation_id))

\* A gauge that counts the CRITICAL level only.
HighRiskInc_critical_only(gauge, level) ==
    IF level = "CRITICAL" THEN gauge + 1 ELSE gauge

\* HIGH_RISK_TRANSACTIONS.inc() when the level is HIGH or CRITICAL.
HighRiskInc(gauge, level) ==
    IF level \in {"HIGH", "CRITICAL"} THEN gauge + 1 ELSE gauge

\* The timer observing only when its block returned.
TimerExit_skip_on_raise(observations, raised) ==
    IF raised THEN observations ELSE observations + 1

\* `with PREDICTION_LATENCY.labels(...).time():` around the predictor call:
\* the timer observes when the block is left, by return or by exception.
TimerExit(observations, raised) == observations + 1

\* score_transaction, the try block running to its return: the predictor
\* returns p.
ScoreSuccess(r) ==
    /\ Serving
    /\ pc[r] = "dispatch"
    /\ BodyValid(r)
    /\ model = "loaded"
    /\ \E p \in ProbValues :
          /\ predictor_calls' = predictor_calls + 1
          /\ PREDICTION_LATENCY' = TimerExit(PREDICTION_LATENCY, FALSE)
          /\ PREDICTION_COUNTER' =
                CounterInc(PREDICTION_COUNTER, risk_level(p), "success")
          /\ HIGH_RISK_TRANSACTIONS' =
                HighRiskInc(HIGH_RISK_TRANSACTIONS, risk_level(p))
          /\ audit_logs' = create_audit_log(audit_logs, ScoreAuditEntry(r, p))
          /\ audit_src' = Append(audit_src, r)
          /\ resp' = [resp EXCEPT ![r] =
                         [NoResponse EXCEPT !.status = 200,
                                            !.body = RiskScoreResponse(r, p)]]
    /\ pc' = [pc EXCEPT ![r] = "respond"]
    /\ UNCHANGED <<startup, model, req, mw_correlation_id, last_read,
                   policy_vars,
                   validation_vars>>

\* The except clauses: ValueError -> validation_error and 400 with the
\* exception's text; any other Exception -> error and 500.
ExceptStatus(exc) == IF exc = "ValueError" THEN "validation_error" ELSE "error"
\* An except chain that answers a ValueError only: any other exception
\* leaves the handler without a response.
ExceptResponse_no_answer(exc) ==
    IF exc = "ValueError"
    THEN [NoResponse EXCEPT !.status = 400,
                            !.detail = "Invalid input: <exception text>"]
    ELSE NoResponse

ExceptResponse(exc) ==
    IF exc = "ValueError"
    THEN [NoResponse EXCEPT !.status = 400,
                            !.detail = "Invalid input: <exception text>"]
    ELSE [NoResponse EXCEPT !.status = 500,
                            !.detail = "Internal server error"]

\* score_transaction, an exception leaving the try block at `point`:
\*   assemble      lines 235-249, before the predictor is called;
\*   predict       model.predict_proba raises (the timer still observes);
\*   audit_entry   after the metrics, in create_audit_log before the append;
\*   after_append  after audit_logs.append (logging, building the result).
\* The predictor and numpy raise ValueError among others.  Past the
\* prediction the exception is not a ValueError: datetime.utcnow() (in
\* create_audit_log before the append, and in the returned dict after it)
\* raises its DeprecationWarning when warnings are errors, and an
\* allocation can fail.
ScoreRaises(r) ==
    /\ Serving
    /\ pc[r] = "dispatch"
    /\ BodyValid(r)
    /\ model = "loaded"
    /\ \E point \in RaisePoints, exc \in ExceptionTypes, p \in ProbValues :
          LET predicted == point # "assemble"
              returned == point \in {"audit_entry", "after_append"}
              appended == point = "after_append"
              counted == IF returned
                         THEN CounterInc(PREDICTION_COUNTER, risk_level(p), "success")
                         ELSE PREDICTION_COUNTER
          IN  /\ returned => exc = "Exception"
              /\ predictor_calls' =
                    IF predicted THEN predictor_calls + 1 ELSE predictor_calls
              /\ PREDICTION_LATENCY' =
                    IF predicted
                    THEN TimerExit(PREDICTION_LATENCY, point = "predict")
                    ELSE PREDICTION_LATENCY
              /\ PREDICTION_COUNTER' = CounterInc(counted, "ERROR", ExceptStatus(exc))
              /\ HIGH_RISK_TRANSACTIONS' =
                    IF returned
                    THEN HighRiskInc(HIGH_RISK_TRANSACTIONS, risk_level(p))
                    ELSE HIGH_RISK_TRANSACTIONS
              /\ audit_logs' =
                    IF appended
                    THEN create_audit_log(audit_logs, ScoreAuditEntry(r, p))
                    ELSE audit_logs
              /\ audit_src' = IF appended THEN Append(audit_src, r) ELSE audit_src
              /\ resp' = [resp EXCEPT ![r] = ExceptResponse(exc)]
    /\ pc' = [pc EXCEPT ![r] = "respond"]
    /\ UNCHANGED <<startup, model, req, mw_correlation_id, last_read,
                   policy_vars,
                   validation_vars>>

\* add_correlation_id after call_next: the response header.
Respond(r) ==
    /\ Serving
    /\ pc[r] = "respond"
    /\ resp' = [resp EXCEPT ![r].x_correlation_id = mw_correlation_id[r]]
    /\ pc' = [pc EXCEPT ![r] = "done"]
    /\ UNCHANGED <<startup, model, audit_logs, audit_src, predictor_calls, metric_vars, req,
                   mw_correlation_id, last_read, policy_vars,
                   validation_vars>>

\* ------------------------------------------------------------ GET endpoints
read_frame ==
    <<startup, model, audit_logs, audit_src, predictor_calls, metric_vars, pc, req,
      mw_correlation_id, resp, policy_vars,
                   validation_vars>>

Limits == 0..MaxLimit

\* GET /audit-logs?limit=...
GetAuditLogs ==
    /\ Serving
    /\ \E limit \in Limits :
          last_read' = [op |-> "audit-logs", status |-> 200, limit |-> limit,
                        body |-> get_audit_logs(audit_logs, limit)]
    /\ UNCHANGED read_frame

\* GET /health
health_check ==
    [status |-> "healthy", model_loaded |-> model # "None",
     model_version |-> MODEL_VERSION, environment |-> ENVIRONMENT]

\* A health handler that assigns the global model.
HealthCheck_resets_model ==
    /\ Serving
    /\ last_read' = [op |-> "health", status |-> 200, body |-> health_check]
    /\ model' = "None"
    /\ UNCHANGED <<startup, audit_logs, audit_src, predictor_calls,
                   metric_vars, pc, req, mw_correlation_id, resp,
                   policy_vars, validation_vars>>

HealthCheck ==
    /\ Serving
    /\ last_read' = [op |-> "health", status |-> 200, body |-> health_check]
    /\ UNCHANGED read_frame

\* A probe that answers ready whatever model is.
readiness_check_always_ready ==
    [op |-> "ready", status |-> 200,
     body |-> [status |-> "ready", model_loaded |-> TRUE,
               model_version |-> MODEL_VERSION,
               environment |-> ENVIRONMENT]]

\* GET /ready: 503 while model is None.
readiness_check ==
    IF model = "None"
    THEN [op |-> "ready", status |-> 503,
          body |-> [detail |-> "Model not loaded"]]
    ELSE [op |-> "ready", status |-> 200,
          body |-> [status |-> "ready", model_loaded |-> TRUE,
                    model_version |-> MODEL_VERSION,
                    environment |-> ENVIRONMENT]]

ReadinessCheck ==
    /\ Serving
    /\ last_read' = readiness_check
    /\ UNCHANGED read_frame

\* GET /metrics: generate_latest() over the registry.
Metrics ==
    /\ Serving
    /\ last_read' = [op |-> "metrics", status |-> 200,
                     body |-> [counter |-> PREDICTION_COUNTER,
                               latency_count |-> PREDICTION_LATENCY,
                               high_risk |-> HIGH_RISK_TRANSACTIONS]]
    /\ UNCHANGED read_frame

\* GET /
Root ==
    /\ Serving
    /\ last_read' = [op |-> "root", status |-> 200,
                     body |-> [service |-> "Transaction Risk Scoring API",
                               version |-> MODEL_VERSION,
                               environment |-> ENVIRONMENT]]
    /\ UNCHANGED read_frame

\* The caller has the response of the GET handler.
ReadDelivered ==
    /\ last_read # NoRead
    /\ last_read' = NoRead
    /\ UNCHANGED read_frame

\* ------------------------------------------------------------ specifications
Next ==
    \/ LifespanStartup
    \/ LifespanStartupFails
    \/ \E r \in Requests : Arrive(r)
    \/ \E r \in Requests : RequestValidationError(r)
    \/ \E r \in Requests : ScoreModelNotLoaded(r)
    \/ \E r \in Requests : ScoreSuccess(r)
    \/ \E r \in Requests : ScoreRaises(r)
    \/ \E r \in Requests : Respond(r)
    \/ GetAuditLogs
    \/ HealthCheck
    \/ ReadinessCheck
    \/ Metrics
    \/ Root
    \/ ReadDelivered

Spec == Init /\ [][Next]_vars

\* The risk policy taken alone: every probability of [0, 1] is classified.
PolicyInit ==
    /\ ServiceInit
    /\ probability \in 0..ProbMax
    /\ classified = NotClassified
    /\ raw_features = ValidFeatures
    /\ validated = NotValidated

Classify ==
    /\ classified = NotClassified
    /\ classified' = [risk_level |-> risk_level(probability),
                      recommendation |-> recommendation(probability)]
    /\ UNCHANGED <<startup, model, audit_logs, audit_src, predictor_calls,
                   metric_vars, pc, req, mw_correlation_id, resp, last_read,
                   probability, validation_vars>>

PolicyNext == Classify

SpecPolicy == PolicyInit /\ [][PolicyNext]_vars

\* The validation of TransactionFeatures taken alone: payloads with every
\* field at, inside and outside its bounds, or with hour_of_day missing.
AmountValues == {0 - 1, 0, MaxAmount, MaxAmount + 1}
AgeValues == {0 - 1, 0, 2}
Transactions24hValues == {0 - 1, 0, MaxTransactions24h, MaxTransactions24h + 1}
AverageValues == {0 - 1, 0, 200}
CountryRiskValues == {0 - 1, 0, MaxCountryRisk, MaxCountryRisk + 1}
HourValues == {0 - 1, 0, MaxHour, MaxHour + 1}

RawPayloads ==
    [transaction_amount_usd : AmountValues, sender_age_days : AgeValues,
     transactions_last_24h : Transactions24hValues,
     avg_transaction_amount : AverageValues,
     sender_country_risk_score : CountryRiskValues,
     is_new_recipient : BOOLEAN, hour_of_day : HourValues,
     negative_zeros : {{}, {"avg_transaction_amount"}}]
        \cup InvalidFeatureCases

ValidationInit ==
    /\ ServiceInit
    /\ probability = 0
    /\ classified = NotClassified
    /\ raw_features \in RawPayloads
    /\ validated = NotValidated

\* TransactionFeatures(**raw): the object, or a validation error.
Validate ==
    /\ validated = NotValidated
    /\ validated' =
          IF TransactionFeatures(raw_features) THEN "accepted" ELSE "rejected"
    /\ UNCHANGED <<startup, model, audit_logs, audit_src, predictor_calls,
                   metric_vars, pc, req, mw_correlation_id, resp, last_read,
                   policy_vars, raw_features>>

ValidationNext == Validate

SpecValidation == ValidationInit /\ [][ValidationNext]_vars

\* ===================================================================== claims
RECURSIVE SumOver(_, _)
SumOver(counter, labels) ==
    IF labels = {} THEN 0
    ELSE LET l == CHOOSE x \in labels : TRUE
         IN  counter[l] + SumOver(counter, labels \ {l})

\* The value of PREDICTION_COUNTER summed over all its label combinations.
CounterTotal(counter) == SumOver(counter, CounterLabels)
\* ... and over the status=success series.
SuccessTotal(counter) == SumOver(counter, {<<l, "success">> : l \in Levels})

\* Request r gets its outcome in this step (validation + handler).
Handled(r) == pc[r] = "dispatch" /\ pc'[r] = "respond"
Answered(r) == pc[r] \in {"respond", "done"}

\* The bounds of the data model, stated on their own: amount in
\* [0, 1000000], age >= 0, frequency in [0, 1000], average >= 0, country
\* risk in [0, 1] (hundredths), a boolean flag, hour in [0, 23], no field
\* missing.
WithinDocumentedBounds(raw) ==
    /\ FieldNames \subseteq DOMAIN raw
    /\ raw.transaction_amount_usd >= 0 /\ raw.transaction_amount_usd <= 1000000
    /\ raw.sender_age_days >= 0
    /\ raw.transactions_last_24h >= 0 /\ raw.transactions_last_24h <= 1000
    /\ raw.avg_transaction_amount >= 0
    /\ raw.sender_country_risk_score >= 0 /\ raw.sender_country_risk_score <= 100
    /\ raw.is_new_recipient \in BOOLEAN
    /\ raw.hour_of_day >= 0 /\ raw.hour_of_day <= 23

\* C1: a scoring attempt that ends in an error response (400, 500 or 503)
\* leaves the audit log as it was when the request entered the handler.
C1_FailedAttemptWritesNoAudit ==
    [][\A r \in Requests :
          (Handled(r) /\ resp'[r].status \in {400, 500, 503})
              => audit_logs' = audit_logs]_vars

\* C2: every scoring attempt that reaches score_transaction, whatever its
\* outcome, adds exactly one to PREDICTION_COUNTER in total over all label
\* combinations: not zero, not two.
C2_CounterOncePerAttempt ==
    [][\A r \in Requests :
          (Handled(r) /\ BodyValid(r))
              => CounterTotal(PREDICTION_COUNTER')
                    = CounterTotal(PREDICTION_COUNTER) + 1]_vars

\* C3: the risk policy follows the threshold table on all of [0, 1]:
\* below 0.3 LOW/APPROVE, from 0.3 below 0.6 MEDIUM/REVIEW, from 0.6 below
\* 0.8 HIGH/REVIEW, from 0.8 CRITICAL/REJECT.
C3_PolicyTable ==
    classified # NotClassified =>
        /\ probability < 30000
              => classified = [risk_level |-> "LOW", recommendation |-> "APPROVE"]
        /\ (probability >= 30000 /\ probability < 60000)
              => classified = [risk_level |-> "MEDIUM", recommendation |-> "REVIEW"]
        /\ (probability >= 60000 /\ probability < 80000)
              => classified = [risk_level |-> "HIGH", recommendation |-> "REVIEW"]
        /\ probability >= 80000
              => classified = [risk_level |-> "CRITICAL", recommendation |-> "REJECT"]

\* C3 witness: the boundary 0.6 has been classified, as HIGH.
C3_Witness ==
    /\ probability = 60000
    /\ classified = [risk_level |-> "HIGH", recommendation |-> "REVIEW"]

\* The audit entries carrying the transaction id of request r.
EntriesOf(r) ==
    {i \in DOMAIN audit_logs :
        audit_logs[i].transaction_id = req[r].transaction_id}

\* All the requests have been answered, each with a success, and their
\* transaction ids are pairwise distinct.
AllSucceededDistinct ==
    /\ \A r \in Requests : Answered(r) /\ resp[r].status = 200
    /\ \A r1, r2 \in Requests :
          r1 # r2 => req[r1].transaction_id # req[r2].transaction_id

\* The entry at index i is the one the handler of request r built: the
\* request's ids, the decision returned to the caller, the service's
\* version and environment.
EntryIntact(i, r) ==
    /\ audit_logs[i].transaction_id = req[r].transaction_id
    /\ audit_logs[i].customer_id = req[r].customer_id
    /\ audit_logs[i].risk_level = resp[r].body.risk_level
    /\ audit_logs[i].recommendation = resp[r].body.recommendation
    /\ audit_logs[i].correlation_id = resp[r].body.correlation_id
    /\ audit_logs[i].risk_score \in ProbValues
    /\ audit_logs[i].model_version = "v1.0.0"
    /\ audit_logs[i].environment = "production"

\* C4: once N valid requests with distinct transaction ids have all been
\* scored, in whatever interleaving, the audit log holds exactly N entries,
\* exactly one per transaction id, each intact, and the status=success
\* series have been incremented N times in total.
C4_ConcurrentScoring ==
    AllSucceededDistinct =>
        /\ Len(audit_logs) = NumRequests
        /\ \A r \in Requests :
              /\ Cardinality(EntriesOf(r)) = 1
              /\ \A i \in EntriesOf(r) : EntryIntact(i, r)
        /\ SuccessTotal(PREDICTION_COUNTER) = NumRequests

\* C4 witness: all the requests succeeded with distinct transaction ids,
\* and the handlers ran in another order than the requests are numbered
\* (the first entry is the last request's).
C4_Witness ==
    /\ NumRequests >= 2
    /\ AllSucceededDistinct
    /\ audit_src[1] = NumRequests

\* C5: the audit tail read with limit >= 0 returns min(limit, total)
\* entries, the most recent ones in chronological order.
C5_TailAtMostLimit ==
    (last_read.op = "audit-logs" /\ last_read.limit >= 0) =>
        LET n == Len(audit_logs)
            k == IF last_read.limit < n THEN last_read.limit ELSE n
        IN  /\ Len(last_read.body.logs) <= last_read.limit
            /\ last_read.body.logs = SubSeq(audit_logs, n - k + 1, n)

\* C6: a request whose features fail validation adds one to the series
\* (ERROR, validation_error) and its caller gets an error.
C6_ValidationFailureCounted ==
    [][\A r \in Requests :
          (Handled(r) /\ ~WithinDocumentedBounds(req[r].features))
              => /\ PREDICTION_COUNTER'[<<"ERROR", "validation_error">>]
                      = PREDICTION_COUNTER[<<"ERROR", "validation_error">>] + 1
                 /\ resp'[r].status >= 400]_vars

\* C7: every audit entry belongs to a request whose features satisfy every
\* documented bound; a request that failed validation has none.
C7_NoAuditForInvalid ==
    /\ Len(audit_src) = Len(audit_logs)
    /\ \A i \in DOMAIN audit_logs :
          /\ audit_src[i] \in Requests
          /\ WithinDocumentedBounds(req[audit_src[i]].features)

\* C7 witness: one request was refused for its features, another was
\* scored and has its entry.
C7_Witness ==
    /\ \E r \in Requests :
          /\ Answered(r)
          /\ ~WithinDocumentedBounds(req[r].features)
          /\ resp[r].status = 422
    /\ Len(audit_logs) >= 1

\* C8: with valid features and a loaded predictor, an attempt that does not
\* succeed ends as the generic server error: HTTP 500, the fixed detail,
\* one more (ERROR, error); 400 is for invalid features only.
C8_PredictorFailureIsInternal ==
    [][\A r \in Requests :
          (Handled(r) /\ WithinDocumentedBounds(req[r].features)
                /\ model = "loaded" /\ resp'[r].status # 200)
              => /\ resp'[r].status = 500
                 /\ resp'[r].detail = "Internal server error"
                 /\ PREDICTION_COUNTER'[<<"ERROR", "error">>]
                      = PREDICTION_COUNTER[<<"ERROR", "error">>] + 1]_vars

\* C9: a score request answered while model is None gets 503, adds one to
\* (ERROR, error) and changes no other series, nor the audit log, the
\* histogram or the gauge.
C9_UnavailableRejected ==
    [][\A r \in Requests :
          (Handled(r) /\ model = "None")
              => /\ resp'[r].status = 503
                 /\ PREDICTION_COUNTER'
                      = [PREDICTION_COUNTER EXCEPT ![<<"ERROR", "error">>] = @ + 1]
                 /\ audit_logs' = audit_logs
                 /\ PREDICTION_LATENCY' = PREDICTION_LATENCY
                 /\ HIGH_RISK_TRANSACTIONS' = HIGH_RISK_TRANSACTIONS]_vars

\* C10: the audit log is append-only: in every step of every operation the
\* old log is a prefix of the new one.
C10_AppendOnly ==
    [][/\ Len(audit_logs') >= Len(audit_logs)
       /\ SubSeq(audit_logs', 1, Len(audit_logs)) = audit_logs]_vars

\* C10 witness: two entries with different contents have been appended and
\* the log has been read.
C10_Witness ==
    /\ Len(audit_logs) >= 2
    /\ audit_logs[1] # audit_logs[2]
    /\ last_read.op = "audit-logs"

\* C11: one correlation id is used end to end for every score request: the
\* caller's X-Correlation-ID when there is one, otherwise one generated
\* token; the response body, the X-Correlation-ID response header and the
\* audit entry all carry that same value.
C11_OneCorrelationId ==
    \A r \in Requests :
        (pc[r] = "done" /\ resp[r].status = 200)
            => LET id == IF req[r].x_correlation_id # NoHeader
                         THEN req[r].x_correlation_id
                         ELSE resp[r].x_correlation_id
               IN  /\ resp[r].x_correlation_id = id
                   /\ resp[r].body.correlation_id = id
                   /\ \A i \in DOMAIN audit_logs :
                         audit_src[i] = r => audit_logs[i].correlation_id = id

\* C12: the readiness probe answers 503 exactly when the predictor is not
\* loaded and ready in every state after load_model completed; a failed
\* load leaves the service without a predictor and not serving, and no
\* score request is ever answered 200 without a loaded predictor.
C12_ReadinessFollowsLoad ==
    /\ last_read.op = "ready"
          => /\ last_read.status \in {200, 503}
             /\ last_read.status = 503 <=> model = "None"
    /\ startup = "started" => model = "loaded"
    /\ startup = "failed" => model = "None" /\ ~Serving
    /\ \A r \in Requests : resp[r].status = 200 => model = "loaded"

\* C12 witness: the probe answers ready after a load that came after a
\* score request was refused for the missing predictor.
C12_Witness ==
    /\ last_read.op = "ready"
    /\ last_read.status = 200
    /\ startup = "started"
    /\ \E r \in Requests : resp[r].status = 503

\* C13: feature validation accepts exactly the payloads within the
\* documented bounds: amount in [0, 1000000] (1000000 accepted, 1000001
\* rejected), hour_of_day in 0..23 (-1 and 24 rejected),
\* transactions_last_24h in 0..1000, sender_age_days >= 0,
\* avg_transaction_amount >= 0, sender_country_risk_score in [0, 1].
C13_ValidationBounds ==
    validated # NotValidated
        => (validated = "accepted" <=> WithinDocumentedBounds(raw_features))

\* C13 witness: a payload with the amount, the frequency, the country risk
\* and the hour all at their upper bounds has been accepted.
C13_Witness ==
    /\ validated = "accepted"
    /\ raw_features.transaction_amount_usd = 1000000
    /\ raw_features.transactions_last_24h = 1000
    /\ raw_features.sender_country_risk_score = 100
    /\ raw_features.hour_of_day = 23

\* A success payload: the nine-field result, here by its transaction id.
IsSuccessPayload(r) ==
    /\ resp[r].body # NoBody
    /\ resp[r].body.transaction_id = req[r].transaction_id

\* C14: every score request that reaches the handler ends in exactly one
\* definitive outcome: the handler can always take its step (no state in
\* which it is stuck), the step leaves either status 200 with a success
\* payload or one of 400, 500, 503 with a detail and no payload, and an
\* outcome once given is never replaced.
C14_DefinitiveOutcome ==
    /\ [](\A r \in Requests :
            /\ (pc[r] = "dispatch" /\ BodyValid(r) /\ Serving)
                  => ENABLED (ScoreModelNotLoaded(r) \/ ScoreSuccess(r)
                                \/ ScoreRaises(r))
            /\ (Answered(r) /\ BodyValid(r))
                  => /\ resp[r].status \in {200, 400, 500, 503}
                     /\ resp[r].status = 200 <=> IsSuccessPayload(r)
                     /\ resp[r].status # 200 => resp[r].detail # "")
    /\ [][\A r \in Requests :
            Answered(r) => /\ Answered(r)'
                           /\ resp'[r].status = resp[r].status
                           /\ resp'[r].body = resp[r].body
                           /\ resp'[r].detail = resp[r].detail]_vars

\* C14 witness: one request was answered 503 before the predictor was
\* loaded, another 400 after it was.
C14_Witness ==
    \E r1, r2 \in Requests :
        /\ pc[r1] = "done" /\ resp[r1].status = 503
        /\ pc[r2] = "done" /\ resp[r2].status = 400

\* Two payloads equal field for field, as == compares the fields.
FieldForFieldEqual(f1, f2) == \A n \in FieldNames : f1[n] = f2[n]

\* C15: the features hash is a function of the feature values alone: two
\* score requests whose TransactionFeatures are field-for-field equal get
\* the same features_hash, whatever their transaction id, customer id,
\* correlation id, order, or the state of the audit log and counters.
C15_HashOfFeaturesAlone ==
    \A r1, r2 \in Requests :
        (/\ resp[r1].status = 200
         /\ resp[r2].status = 200
         /\ FieldForFieldEqual(req[r1].features, req[r2].features))
            => resp[r1].body.features_hash = resp[r2].body.features_hash

\* C16: for every successful score the audit entry appended for it carries
\* the decision fields of the result returned to the caller: transaction
\* id, risk score (the probability rounded to 4 decimals), risk level,
\* recommendation, model version and correlation id are equal between the
\* entry and the response.
C16_AuditCopiesResult ==
    \A i \in DOMAIN audit_logs :
        LET r == audit_src[i]
        IN  resp[r].status = 200
                => /\ audit_logs[i].transaction_id = resp[r].body.transaction_id
                   /\ audit_logs[i].risk_score = resp[r].body.risk_score
                   /\ audit_logs[i].risk_level = resp[r].body.risk_level
                   /\ audit_logs[i].recommendation = resp[r].body.recommendation
                   /\ audit_logs[i].model_version = resp[r].body.model_version
                   /\ audit_logs[i].correlation_id = resp[r].body.correlation_id

\* C17: the latency histogram gets exactly one observation for each call
\* of the predictor, whether the call returns or raises, and none for a
\* request refused because model is None: in every state the number of
\* observations equals the number of predictor calls.
C17_OneObservationPerCall ==
    /\ [](PREDICTION_LATENCY = predictor_calls)
    /\ [][/\ PREDICTION_LATENCY' - PREDICTION_LATENCY \in {0, 1}
          /\ \A r \in Requests :
                (Handled(r) /\ model = "None")
                    => PREDICTION_LATENCY' = PREDICTION_LATENCY]_vars

\* C17 witness: the predictor was called twice, returning once and raising
\* a ValueError once, and both calls were observed.
C17_Witness ==
    /\ predictor_calls = 2
    /\ PREDICTION_LATENCY = 2
    /\ \E r1, r2 \in Requests :
          resp[r1].status = 200 /\ resp[r2].status = 400

C19_ModelWrittenOnlyAtStartup ==
    /\ [][/\ model' # model
                => /\ startup = "pending" /\ startup' = "started"
                   /\ model = "None" /\ model' = "loaded"
          /\ model = "loaded" => model' = "loaded"]_vars
    /\ []((startup = "started" /\ last_read.op = "ready")
            => last_read.status = 200)

\* C19 witness: after the load, one score request was answered 200 and one
\* 500, and the readiness probe still answers ready.
C19_Witness ==
    /\ model = "loaded"
    /\ \E r \in Requests : pc[r] = "done" /\ resp[r].status = 200
    /\ \E r \in Requests : pc[r] = "done" /\ resp[r].status = 500
    /\ last_read.op = "ready"
    /\ last_read.status = 200

====
